---- MODULE Spec2Model ----
(***************************************************************************)
(* Model of the story generation / validation feedback loop of             *)
(* src/backend/workflow.py and of the agents it wires together             *)
(* (generation_agent.py, validation_agent.py, task_agent.py,               *)
(* supabase_agent.py).                                                     *)
(*                                                                         *)
(* Scores are Python floats in the code.  They are represented here as     *)
(* integers counted in 1/90 of a point, so that tenths of a point (84.9)   *)
(* and the multimodal bonus (avg - 70) / 3 of whole-point sub-scores are   *)
(* both exact.                                                             *)
(***************************************************************************)
EXTENDS Integers, Sequences, FiniteSets, TLC

\* ------------------------------------------------------------------ bounds
MaxIter == 3          \* largest max_iterations a run is configured with
MaxPasses == 5        \* generation passes explored per run
MaxRawStories == 2    \* stories in one raw model answer (SpecGen)
MaxCriteria == 3      \* acceptance criteria of one raw story (SpecGen)
MaxStories == 8       \* stories of an accepted list (SpecTasks)
MaxRawTasks == 2      \* tasks in one raw batch answer (SpecTasks)
MaxHooks == 2         \* webhook requests in flight (SpecHooks)

\* ------------------------------------------------------- score arithmetic
ScoreUnit == 90
Pts(p) == p * ScoreUnit
Tenths(t) == t * (ScoreUnit \div 10)

Min2(a, b) == IF a <= b THEN a ELSE b
Max2(a, b) == IF a >= b THEN a ELSE b

NoScore == 0 - 1      \* the key is absent from the state dict
NoStatus == "absent"

APPROVED == "approved"
NEEDS_REVISION == "needs_revision"
NEEDS_CLARIFICATION == "needs_clarification"
ValidationStatus == {APPROVED, NEEDS_REVISION, NEEDS_CLARIFICATION}

\* state.get(key, default)
Get(value, default) == IF value = NoScore THEN default ELSE value

\* ------------------------------------------------------------ identifiers
\* Python f"{n:03d}"
Pad3(n) ==
    IF n < 10 THEN "00" \o ToString(n)
    ELSE IF n < 100 THEN "0" \o ToString(n)
    ELSE ToString(n)

FormatStoryId(n) == "US" \o Pad3(n)
FormatTaskId(n) == "T" \o Pad3(n)

Absent == "<absent>"  \* the key is missing from a raw model object

\* --------------------------------------------------------- generate_stories
DefaultCriterion == "System responds successfully"
MinCriteria == 3
MaxCoreFeatures == 5
MaxGapStories == 3

\* pads with the default criterion instead of the last one
RECURSIVE PadCriteria_default(_)
PadCriteria_default(ac) ==
    IF Len(ac) < MinCriteria
    THEN PadCriteria_default(Append(ac, "Enhanced: " \o DefaultCriterion))
    ELSE ac

RECURSIVE PadCriteria(_)
PadCriteria(ac) ==
    IF Len(ac) < MinCriteria
    THEN PadCriteria(Append(ac, "Enhanced: " \o
             (IF Len(ac) > 0 THEN ac[Len(ac)] ELSE DefaultCriterion)))
    ELSE ac

NoPoints == 0 - 1     \* the estimated_points key is missing from a raw story
DefaultPriority == "medium"
DefaultPoints == 3

\* the validated_story built for raw story number idx (1-based here); a
\* missing dependencies key reads as the empty list
ValidatedStory(raw, idx) ==
    [id |-> IF raw.id = Absent THEN FormatStoryId(idx) ELSE raw.id,
     acceptance_criteria |-> PadCriteria(raw.acceptance_criteria),
     priority |-> IF raw.priority = Absent THEN DefaultPriority ELSE raw.priority,
     estimated_points |-> IF raw.estimated_points = NoPoints THEN DefaultPoints
                          ELSE raw.estimated_points,
     dependencies |-> raw.dependencies]

\* keeps the ids the model returned
RenumberStories_keep(stories) == stories

\* "Ensure sequential IDs"
RenumberStories(stories) ==
    [i \in 1..Len(stories) |-> [stories[i] EXCEPT !.id = FormatStoryId(i)]]

CoreFeatureCriteria ==
    << "Core functionality is accessible through the UI",
       "Feature works according to requirements specification",
       "Error handling is implemented for edge cases",
       "Feature integrates properly with existing system" >>

TechnicalCriteria ==
    << "System meets performance requirements",
       "Security constraints are properly implemented",
       "Scalability requirements are addressed",
       "Technical documentation is complete" >>

GenericGapCriteria ==
    << "Gap in requirements is properly addressed",
       "Implementation aligns with both primary and document requirements",
       "Functionality is tested and validated" >>

\* missing_elements as _ensure_multimodal_coverage builds it: one
\* "core_feature_<k>" per uncovered core feature (k = elements so far), then
\* at most one "technical_constraints"
RECURSIVE CoreElements(_)
CoreElements(n) ==
    IF n = 0 THEN << >>
    ELSE Append(CoreElements(n - 1), "core_feature_" \o ToString(n - 1))

\* element.startswith("core_feature_"), over the elements the coverage check
\* can produce
IsCoreFeatureElement(e) == \E k \in 0..MaxCoreFeatures : e = "core_feature_" \o ToString(k)

MissingElements(ncore, tech) ==
    CoreElements(ncore) \o (IF tech THEN << "technical_constraints" >> ELSE << >>)

GapStory(element, id) ==
    [id |-> id,
     acceptance_criteria |->
        IF IsCoreFeatureElement(element) THEN CoreFeatureCriteria
        ELSE IF element = "technical_constraints" THEN TechnicalCriteria
        ELSE GenericGapCriteria,
     priority |->
        IF IsCoreFeatureElement(element) \/ element = "technical_constraints"
        THEN "high" ELSE "medium",
     estimated_points |->
        IF IsCoreFeatureElement(element) THEN 5
        ELSE IF element = "technical_constraints" THEN 8
        ELSE 3,
     dependencies |-> << >>]

GenerateGapStories(missing_elements, current_count) ==
    [idx \in 1..Min2(MaxGapStories, Len(missing_elements)) |->
        GapStory(missing_elements[idx], FormatStoryId(current_count + (idx - 1) + 1))]

EnsureCoverage(stories, missing_elements) ==
    IF Len(missing_elements) > 0
    THEN stories \o GenerateGapStories(missing_elements, Len(stories))
    ELSE stories

\* the post-processing of one successful model answer
ProcessStories(raw_stories, missing_elements) ==
    EnsureCoverage(
        RenumberStories([i \in 1..Len(raw_stories) |-> ValidatedStory(raw_stories[i], i)]),
        missing_elements)

\* --------------------------------------------------------- validate_stories
\* a JSON value found where a number is expected
Num(units) == [kind |-> "num", val |-> units]
NoValue == [kind |-> "none", val |-> 0]         \* key absent or null
NonNumeric == [kind |-> "bad", val |-> 0]       \* float(value) raises
NaNValue == [kind |-> "nan", val |-> 0]         \* the JSON literal NaN

\* the float nan: every comparison with it is false and every sum with it
\* is nan
NaN == 0 - 1000000

_safe_to_float(value, default) ==
    IF value.kind = "none" THEN default
    ELSE IF value.kind = "num" THEN value.val
    ELSE IF value.kind = "nan" THEN NaN
    ELSE default

EmptyAnalysis ==
    [present |-> FALSE, source_coverage_score |-> NoValue,
     integration_quality |-> NoValue, conflict_resolution_score |-> NoValue]

\* the JSON object the scoring call is asked for: story_issues holds the
\* issues of all stories, and a key left out reads as the empty list
Semantic(score, ma, critical_issues, recommendations, issues) ==
    [validation_score |-> score, multimodal_analysis |-> ma,
     critical_issues |-> critical_issues, recommendations |-> recommendations,
     story_issues |-> issues, missing_requirements |-> << >>]

\* the same object with a missing_requirements list
SemanticWith(semantic, missing_requirements) ==
    [semantic EXCEPT !.missing_requirements = missing_requirements]

NoFeedback == Semantic(NoValue, EmptyAnalysis, << >>, << >>, << >>)

\* leaves the failure out of the synthesized record
FallbackSemantic_silent ==
    Semantic(Num(Pts(50)), EmptyAnalysis, << >>, << >>, << >>)

\* the record synthesized when the scoring call raises
FallbackSemantic ==
    Semantic(Num(Pts(50)), EmptyAnalysis, << "Semantic validation failed" >>,
             << "Manual review required." >>, << >>)

\* sum of the three sub-scores; the code divides it by 3
SubScoreSum(ma) ==
    LET a == _safe_to_float(ma.source_coverage_score, Pts(50))
        b == _safe_to_float(ma.integration_quality, Pts(50))
        c == _safe_to_float(ma.conflict_resolution_score, Pts(50))
    IN  IF a = NaN \/ b = NaN \/ c = NaN THEN NaN ELSE a + b + c

\* leaves the bonus uncapped
BaseScore_uncapped(semantic) ==
    LET base == _safe_to_float(semantic.validation_score, Pts(70))
        ma == semantic.multimodal_analysis
        sum == SubScoreSum(ma)
    IN  IF ma.present /\ sum # NaN /\ sum > 3 * Pts(70)
        THEN (IF base = NaN THEN NaN ELSE base + (sum - 3 * Pts(70)) \div 9)
        ELSE base

\* multimodal_bonus = sum / 3; bonus applies when it is > 70 and is
\* min(10, (multimodal_bonus - 70) / 3) = min(10, (sum - 210) / 9)
BaseScore(semantic) ==
    LET base == _safe_to_float(semantic.validation_score, Pts(70))
        ma == semantic.multimodal_analysis
        sum == SubScoreSum(ma)
    IN  IF ma.present /\ sum # NaN /\ sum > 3 * Pts(70)
        THEN (IF base = NaN THEN NaN
              ELSE base + Min2(Pts(10), (sum - 3 * Pts(70)) \div 9))
        ELSE base

\* stores the score without the clamp
FinalScore_unclamped(semantic) ==
    IF BaseScore(semantic) = NaN THEN Pts(100) ELSE BaseScore(semantic)

\* max(0, min(100, base_score)); min(100, nan) is 100
FinalScore(semantic) ==
    IF BaseScore(semantic) = NaN THEN Pts(100)
    ELSE Max2(0, Min2(Pts(100), BaseScore(semantic)))

\* approves from 85 points on
StatusOf_85(validation_score) ==
    IF validation_score >= Pts(85) THEN APPROVED
    ELSE IF validation_score >= Pts(60) THEN NEEDS_REVISION
    ELSE NEEDS_CLARIFICATION

StatusOf(validation_score) ==
    IF validation_score >= Pts(80) THEN APPROVED
    ELSE IF validation_score >= Pts(60) THEN NEEDS_REVISION
    ELSE NEEDS_CLARIFICATION

\* ------------------------------------------------------ determine_next_step
\* the decision procedure with its constants as parameters: fast is the
\* fast-path threshold, salvage the threshold at exhausted iterations, floor
\* the retry floor; inclusive makes a drop of exactly 10 a degradation and
\* strict makes exhaustion need iteration_count > max_iter
dns_variant(validation_status, score_field, iteration_count, max_iter, previous_field,
            fast, salvage, floor, inclusive, strict) ==
    LET validation_score == Get(score_field, 0)
        previous_score == Get(previous_field, validation_score)
        exhausted == IF strict THEN iteration_count > max_iter
                     ELSE iteration_count >= max_iter
        degraded == IF inclusive THEN validation_score <= previous_score - Pts(10)
                    ELSE validation_score < previous_score - Pts(10)
    IN  IF validation_status = APPROVED \/ validation_score >= fast
        THEN "approved"
        ELSE IF exhausted
        THEN (IF validation_score >= salvage THEN "approved" ELSE "max_iterations")
        ELSE IF iteration_count > 0 /\ degraded
        THEN (IF validation_score >= Pts(60) THEN "approved" ELSE "max_iterations")
        ELSE IF validation_score >= floor
        THEN "needs_revision"
        ELSE "low_quality"

dns_no_fast_path(validation_status, score_field, iteration_count, max_iter, previous_field) ==
    dns_variant(validation_status, score_field, iteration_count, max_iter, previous_field,
                Pts(101), Pts(70), Pts(50), FALSE, FALSE)

dns_fast_path_85(validation_status, score_field, iteration_count, max_iter, previous_field) ==
    dns_variant(validation_status, score_field, iteration_count, max_iter, previous_field,
                Pts(85), Pts(70), Pts(50), FALSE, FALSE)

dns_salvage_above_70(validation_status, score_field, iteration_count, max_iter, previous_field) ==
    dns_variant(validation_status, score_field, iteration_count, max_iter, previous_field,
                Pts(80), Pts(70) + 1, Pts(50), FALSE, FALSE)

dns_degrade_inclusive(validation_status, score_field, iteration_count, max_iter, previous_field) ==
    dns_variant(validation_status, score_field, iteration_count, max_iter, previous_field,
                Pts(80), Pts(70), Pts(50), TRUE, FALSE)

dns_floor_30(validation_status, score_field, iteration_count, max_iter, previous_field) ==
    dns_variant(validation_status, score_field, iteration_count, max_iter, previous_field,
                Pts(80), Pts(70), Pts(30), FALSE, FALSE)

dns_floor_0(validation_status, score_field, iteration_count, max_iter, previous_field) ==
    dns_variant(validation_status, score_field, iteration_count, max_iter, previous_field,
                Pts(80), Pts(70), 0, FALSE, FALSE)

dns_exhaust_strict(validation_status, score_field, iteration_count, max_iter, previous_field) ==
    dns_variant(validation_status, score_field, iteration_count, max_iter, previous_field,
                Pts(80), Pts(70), Pts(50), FALSE, TRUE)

dns_salvage_at_50(validation_status, score_field, iteration_count, max_iter, previous_field) ==
    dns_variant(validation_status, score_field, iteration_count, max_iter, previous_field,
                Pts(80), Pts(50), Pts(50), FALSE, FALSE)

determine_next_step(validation_status, score_field, iteration_count, max_iter, previous_field) ==
    LET validation_score == Get(score_field, 0)
        previous_score == Get(previous_field, validation_score)
    IN  IF validation_status = APPROVED \/ validation_score >= Pts(80)
        THEN "approved"
        ELSE IF iteration_count >= max_iter
        THEN (IF validation_score >= Pts(70) THEN "approved" ELSE "max_iterations")
        ELSE IF iteration_count > 0 /\ validation_score < previous_score - Pts(10)
        THEN (IF validation_score >= Pts(60) THEN "approved" ELSE "max_iterations")
        ELSE IF validation_score >= Pts(50)
        THEN "needs_revision"
        ELSE "low_quality"

\* determine_next_step of user_story.py: fast path at 85, retry floor 30, no
\* degradation check and no write to the state
determine_next_step_user_story(validation_status, score_field, iteration_count, max_iter) ==
    LET validation_score == Get(score_field, 0)
    IN  IF validation_status = APPROVED \/ validation_score >= Pts(85)
        THEN "approved"
        ELSE IF iteration_count >= max_iter
        THEN (IF validation_score >= Pts(70) THEN "approved" ELSE "max_iterations")
        ELSE IF validation_score >= Pts(30)
        THEN "needs_revision"
        ELSE "low_quality"

\* sends a run that is out of iterations on to task generation
RouteTarget_exhausted_to_tasks(result) ==
    IF result \in {"approved", "max_iterations"} THEN "generate_tasks"
    ELSE IF result = "needs_revision" THEN "generate_stories"
    ELSE "human_review"

\* the mapping of add_conditional_edges
RouteTarget(result) ==
    IF result = "approved" THEN "generate_tasks"
    ELSE IF result = "needs_revision" THEN "generate_stories"
    ELSE "human_review"

\* ----------------------------------------------------------- generate_tasks
BatchLimit == 7
MinHours == 4
MaxHours == 16
DefaultHours == 8

BatchSize(num_stories) == IF num_stories <= BatchLimit THEN num_stories ELSE BatchLimit

\* rounds the number of batches down
NumBatches_floor(num_stories) ==
    IF num_stories <= BatchLimit THEN 1
    ELSE num_stories \div BatchLimit

NumBatches(num_stories) ==
    IF num_stories <= BatchLimit THEN 1
    ELSE (num_stories + BatchLimit - 1) \div BatchLimit

\* user_stories[batch_start_idx:batch_end_idx] of batch i (0-based)
StoryBatch(stories, i) ==
    SubSeq(stories, i * BatchSize(Len(stories)) + 1,
           Min2((i + 1) * BatchSize(Len(stories)), Len(stories)))

\* leaves the testing task out
_create_fallback_tasks_pair(story, task_counter) ==
    << [id |-> FormatTaskId(task_counter + 1), story_id |-> story.id,
        category |-> "backend", title |-> "Backend implementation",
        estimated_hours |-> 12, dependencies |-> << >>],
       [id |-> FormatTaskId(task_counter + 2), story_id |-> story.id,
        category |-> "frontend", title |-> "Frontend implementation",
        estimated_hours |-> 10,
        dependencies |-> << FormatTaskId(task_counter + 1) >>] >>

\* the three deterministic tasks of one story
_create_fallback_tasks(story, task_counter) ==
    << [id |-> FormatTaskId(task_counter + 1), story_id |-> story.id,
        category |-> "backend", title |-> "Backend implementation",
        estimated_hours |-> 12, dependencies |-> << >>],
       [id |-> FormatTaskId(task_counter + 2), story_id |-> story.id,
        category |-> "frontend", title |-> "Frontend implementation",
        estimated_hours |-> 10,
        dependencies |-> << FormatTaskId(task_counter + 1) >>],
       [id |-> FormatTaskId(task_counter + 3), story_id |-> story.id,
        category |-> "testing", title |-> "Testing",
        estimated_hours |-> 6,
        dependencies |-> << FormatTaskId(task_counter + 1), FormatTaskId(task_counter + 2) >>] >>

RECURSIVE FallbackFrom(_, _, _)
FallbackFrom(stories, k, task_counter) ==
    IF k > Len(stories) THEN << >>
    ELSE _create_fallback_tasks(stories[k], task_counter)
         \o FallbackFrom(stories, k + 1, task_counter + 3)

\* starts the counter at starting_task_id
_create_fallback_tasks_for_batch_late(story_batch, starting_task_id) ==
    FallbackFrom(story_batch, 1, starting_task_id)

_create_fallback_tasks_for_batch(story_batch, starting_task_id) ==
    FallbackFrom(story_batch, 1, starting_task_id - 1)

\* the JSON null as the value of a key that is present
NullValue == [kind |-> "null", val |-> 0]

\* keeps the hours the model reported
ValidatedTask_unclamped(task, story_batch, id) ==
    [id |-> id,
     story_id |->
        IF task.story_id = Absent \/ task.story_id = ""
           \/ ~(\E k \in 1..Len(story_batch) : story_batch[k].id = task.story_id)
        THEN story_batch[1].id
        ELSE task.story_id,
     category |-> task.category,
     title |-> task.title,
     estimated_hours |->
        IF task.estimated_hours.kind = "none" THEN DefaultHours
        ELSE task.estimated_hours.val,
     dependencies |-> << >>]

\* a raw task of the model answer: is_dict is isinstance(task, dict);
\* story_id is Absent, "" or a string; estimated_hours is a JSON value,
\* NoValue when the key is absent (task.get("estimated_hours", 8)); a NaN
\* loses every comparison, so max(4, nan) is 4
ValidatedTask(task, story_batch, id) ==
    [id |-> id,
     story_id |->
        IF task.story_id = Absent \/ task.story_id = ""
           \/ ~(\E k \in 1..Len(story_batch) : story_batch[k].id = task.story_id)
        THEN story_batch[1].id
        ELSE task.story_id,
     category |-> task.category,
     title |-> task.title,
     estimated_hours |->
        Min2(MaxHours, Max2(MinHours,
            IF task.estimated_hours.kind = "none" THEN DefaultHours
            ELSE task.estimated_hours.val)),
     dependencies |-> << >>]

IsDictTask(task) == task.is_dict

\* min(16, max(4, value)) raises TypeError on a string and on null
BatchRaises(outcome) ==
    \/ outcome.kind = "raise"
    \/ \E k \in 1..Len(outcome.tasks) :
          /\ outcome.tasks[k].is_dict
          /\ outcome.tasks[k].estimated_hours.kind \in {"bad", "null"}

_generate_batch_tasks(story_batch, outcome, starting_task_id) ==
    IF BatchRaises(outcome)
    THEN _create_fallback_tasks_for_batch(story_batch, starting_task_id)
    ELSE LET dicts == SelectSeq(outcome.tasks, IsDictTask)
         IN  [k \in 1..Len(dicts) |->
                 ValidatedTask(dicts[k], story_batch, FormatTaskId(starting_task_id + k - 1))]

\* the loop over the batches: outcomes[i + 1] is the answer to batch i
RECURSIVE BatchLoop(_, _, _, _)
BatchLoop(stories, outcomes, i, all_tasks) ==
    IF i >= NumBatches(Len(stories)) THEN all_tasks
    ELSE BatchLoop(stories, outcomes, i + 1,
             all_tasks \o _generate_batch_tasks(StoryBatch(stories, i), outcomes[i + 1],
                                                1 + Len(all_tasks)))

\* takes every story as covered
StoriesWithoutTasks_none(stories, all_tasks) == << >>

StoriesWithoutTasks(stories, all_tasks) ==
    SelectSeq(stories, LAMBDA s : ~(\E k \in 1..Len(all_tasks) : all_tasks[k].story_id = s.id))

\* numbers the tasks from T000
RenumberTasks_zero_based(all_tasks) ==
    [i \in 1..Len(all_tasks) |-> [all_tasks[i] EXCEPT !.id = FormatTaskId(i - 1)]]

\* "Ensure sequential task IDs"
RenumberTasks(all_tasks) ==
    [i \in 1..Len(all_tasks) |-> [all_tasks[i] EXCEPT !.id = FormatTaskId(i)]]

\* state["tasks"] for a non-empty story list
GeneratedTasks(stories, outcomes) ==
    LET batch_tasks == BatchLoop(stories, outcomes, 0, << >>)
        without == StoriesWithoutTasks(stories, batch_tasks)
    IN  RenumberTasks(batch_tasks \o FallbackFrom(without, 1, Len(batch_tasks)))

\* ------------------------------------------------- generation feedback
\* f"{score:.1f}": the score rounded to a tenth of a point (9 units)
RoundTenth(score) == ((score + 4) \div 9) * 9

\* one section of the feedback text, or nothing when the list is empty
Section(name, content) == IF content = << >> THEN << >> ELSE name :> content

\* the feedback text as the sections it is made of; << >> is the empty
\* string.  A detailed_feedback without any key is the empty dict.
_format_multimodal_feedback(count, feedback, score_field, previous_stories) ==
    IF count = 0 THEN << >>
    ELSE ("header" :> TRUE)
         @@ (IF feedback # NoFeedback
             THEN ("validation_score" :> RoundTenth(Get(score_field, 0)))
                  @@ Section("missing_requirements", feedback.missing_requirements)
                  @@ Section("recommendations", feedback.recommendations)
                  @@ Section("critical_issues", feedback.critical_issues)
             ELSE << >>)
         @@ (IF previous_stories # << >>
             THEN "previous_iteration" :> Len(previous_stories)
             ELSE << >>)

\* never takes the snapshot
SnapshotStories_stale(current_stories, previous_stories) == previous_stories

\* lines 397-401: keep the current stories before they are overwritten
SnapshotStories(current_stories, previous_stories) ==
    IF Len(current_stories) > 0 THEN current_stories ELSE previous_stories

\* -------------------------------------------------------- the run inputs
\* what the caller puts into the state: the requirements text, the
\* structured documentation (NoDocumentation when the key is absent) and
\* the project context
NoDocumentation == [content |-> Absent, title |-> Absent]

TextInputs ==
    [client_requirements |-> "requirements text",
     documentation |-> NoDocumentation,
     project_context |-> [tech_stack |-> << >>]]

DocumentInputs ==
    [client_requirements |-> "",
     documentation |-> [content |-> "=== DOCUMENT: spec.pdf", title |-> "spec.pdf"],
     project_context |-> [tech_stack |-> << "Python", "React" >>]]

RunInputs == { TextInputs, DocumentInputs }

\* ------------------------------------------------------- the task board
\* status_id of a task row
TO_DO == 1
IN_PROGRESS == 2
IN_REVIEW == 3
COMPLETED == 4
StatusIds == { TO_DO, IN_PROGRESS, IN_REVIEW, COMPLETED }

\* a webhook request that has not arrived yet
IdleWebhook ==
    [pc |-> "idle", action |-> "none", response |-> 0, scheduled |-> FALSE,
     secret_set |-> FALSE, verified |-> FALSE, read_status |-> 0,
     overwritten |-> 0, moved |-> "none"]

NoWebhooks == [p \in 1..MaxHooks |-> IdleWebhook]

\* ==================================================================== state
VARIABLES
    pc,                        \* the node (or routing function) to run next
    cfg_max_iterations,        \* max_iterations argument of create_story_workflow
    state_shared,              \* the routing function is handed the state object
                               \* itself (TRUE) or a copy whose writes are dropped
    max_iterations,            \* state["max_iterations"], 0 while absent
    iteration_count,           \* state["iteration_count"]
    validation_status,         \* state["validation_status"]
    validation_score,          \* state["validation_score"]
    previous_validation_score, \* state["previous_validation_score"]
    user_stories,              \* state["user_stories"]
    previous_user_stories,     \* state["previous_user_stories"]
    tasks,                     \* state["tasks"]
    last_error,                \* state["last_error"]
    current_phase,             \* state["current_phase"]
    storage_success,           \* state["storage_success"]
    llm_stories,               \* the latest answer of the story-generation call
    decision,                  \* the latest result of determine_next_step
    seen_previous_score,       \* previous_score as that evaluation read it
    gen_passes,                \* story-generation passes so far
    val_passes,                \* validation passes so far
    retries,                   \* needs_revision decisions so far
    steady_scores,             \* every validation pass so far stored a score in
                               \* [50, 80) not more than 10 below the one before
    graph,                     \* the module whose create_story_workflow built
                               \* the graph: "workflow" or "user_story"
    detailed_feedback,         \* state["detailed_feedback"]
    story_issues,              \* state["story_issues"]
    llm_validation,            \* what the latest scoring call did
    run_result,                \* what _run_multimodal_workflow returned
    llm_tasks,                 \* the answers of the batch calls of generate_tasks
    storage_error,             \* state["storage_error"]
    feedback_section,          \* the feedback handed to the latest generation call
    inputs,                    \* client_requirements, documentation, project_context
    task_status,               \* status_id of the task row a pull request names
    webhooks                   \* the webhook requests and their background tasks

vars == << pc, cfg_max_iterations, state_shared, max_iterations, iteration_count,
           validation_status, validation_score, previous_validation_score,
           user_stories, previous_user_stories, tasks, last_error, current_phase,
           storage_success, llm_stories, decision, seen_previous_score,
           gen_passes, val_passes, retries, steady_scores, graph,
           detailed_feedback, story_issues, llm_validation, run_result,
           llm_tasks, storage_error, feedback_section, inputs, task_status,
           webhooks >>

NoResult == [success |-> FALSE, error |-> "none", status |-> "none"]

\* the initial_state dict of the callers: iteration_count 0, no validation
\* fields, no max_iterations
InitialState ==
    /\ pc = "initialize"
    /\ cfg_max_iterations \in 1..MaxIter
    /\ state_shared \in BOOLEAN
    /\ max_iterations = 0
    /\ iteration_count = 0
    /\ validation_status = NoStatus
    /\ validation_score = NoScore
    /\ previous_validation_score = NoScore
    /\ user_stories = << >>
    /\ previous_user_stories = << >>
    /\ tasks = << >>
    /\ last_error = "none"
    /\ current_phase = "story_generation"
    /\ storage_success = "unset"
    /\ llm_stories = [kind |-> "none", stories |-> << >>, missing |-> << >>]
    /\ decision = "none"
    /\ seen_previous_score = NoScore
    /\ gen_passes = 0
    /\ val_passes = 0
    /\ retries = 0
    /\ steady_scores = TRUE
    /\ detailed_feedback = NoFeedback
    /\ story_issues = << >>
    /\ llm_validation = "none"
    /\ run_result = NoResult
    /\ llm_tasks = << >>
    /\ storage_error = "none"
    /\ feedback_section = << >>
    /\ task_status = IN_PROGRESS
    /\ webhooks = NoWebhooks

\* the graph of workflow.py, as its callers compile and run it
Init == InitialState /\ graph = "workflow" /\ inputs = TextInputs

\* ------------------------------------------------------------- initialize
\* consumes the requirements text
initialize_iteration_tracking_consuming ==
    /\ pc = "initialize"
    /\ max_iterations' = IF max_iterations = 0 THEN cfg_max_iterations ELSE max_iterations
    /\ inputs' = [inputs EXCEPT !.client_requirements = ""]
    /\ pc' = "generate_stories"
    /\ UNCHANGED << cfg_max_iterations, state_shared, graph, task_status, webhooks,
                    llm_tasks, storage_error, feedback_section, run_result,
                    detailed_feedback, story_issues, llm_validation, iteration_count,
                    validation_status, validation_score, previous_validation_score,
                    user_stories, previous_user_stories, tasks, last_error,
                    current_phase, storage_success, llm_stories, decision,
                    seen_previous_score, gen_passes, val_passes, retries,
                    steady_scores >>

initialize_iteration_tracking ==
    /\ pc = "initialize"
    /\ max_iterations' = IF max_iterations = 0 THEN cfg_max_iterations ELSE max_iterations
    /\ pc' = "generate_stories"
    /\ UNCHANGED << cfg_max_iterations, state_shared, graph, inputs, task_status, webhooks, llm_tasks, storage_error, feedback_section, run_result,
                    detailed_feedback, story_issues, llm_validation, iteration_count,
                    validation_status, validation_score, previous_validation_score,
                    user_stories, previous_user_stories, tasks, last_error,
                    current_phase, storage_success, llm_stories, decision,
                    seen_previous_score, gen_passes, val_passes, retries,
                    steady_scores >>

\* ------------------------------------------------------- generate_stories
NoAnswer == [kind |-> "none", stories |-> << >>, missing |-> << >>]
ListAnswer(stories, missing) == [kind |-> "list", stories |-> stories, missing |-> missing]
RaiseAnswer == [kind |-> "raise", stories |-> << >>, missing |-> << >>]

\* one pass: either the chain (or the post-processing of a malformed answer)
\* raises, or the model answers a list of story objects from Lists and the
\* coverage check finds the elements of one member of Missing uncovered
generate_stories_on(Lists, Missing) ==
    /\ pc = "generate_stories"
    /\ gen_passes < MaxPasses
    /\ previous_user_stories' = SnapshotStories(user_stories, previous_user_stories)
    /\ feedback_section' =
          _format_multimodal_feedback(iteration_count, detailed_feedback,
                                      validation_score, previous_user_stories')
    /\ \/ /\ llm_stories' = RaiseAnswer
          /\ last_error' = "Multimodal story generation failed"
          /\ user_stories' = << >>
          /\ current_phase' = "error"
       \/ \E stories \in Lists, missing \in Missing :
          /\ llm_stories' = ListAnswer(stories, missing)
          /\ user_stories' = ProcessStories(stories, missing)
          /\ current_phase' = "story_validation"
          /\ UNCHANGED last_error
    /\ gen_passes' = gen_passes + 1
    /\ pc' = "validate_stories"
    /\ UNCHANGED << cfg_max_iterations, state_shared, graph, inputs, task_status, webhooks, llm_tasks, storage_error, run_result,
                    detailed_feedback, story_issues, llm_validation, max_iterations, iteration_count,
                    validation_status, validation_score, previous_validation_score,
                    tasks, storage_success, decision, seen_previous_score,
                    val_passes, retries, steady_scores >>

\* ------------------------------------------------------- validate_stories
\* answer.kind: "raise" when chain.invoke raises, "malformed" when it
\* returns a parseable value the scoring code cannot read (a JSON list or
\* string, or a dict whose multimodal_analysis is a non-empty list), "dict"
\* for a JSON object
validate_stories_on(Answers) ==
    /\ pc = "validate_stories"
    /\ IF Len(user_stories) = 0
       THEN /\ validation_status' = NEEDS_REVISION
            /\ validation_score' = 0
            /\ llm_validation' = "skipped"
            /\ UNCHANGED << iteration_count, last_error, current_phase,
                            detailed_feedback, story_issues >>
       ELSE \E answer \in Answers :
            /\ llm_validation' = answer.kind
            /\ IF answer.kind = "malformed"
               THEN /\ last_error' = "Enhanced validation failed unexpectedly"
                    /\ validation_status' = NEEDS_REVISION
                    /\ current_phase' = "error"
                    /\ UNCHANGED << validation_score, iteration_count,
                                    detailed_feedback, story_issues >>
               ELSE LET semantic == IF answer.kind = "raise" THEN FallbackSemantic
                                    ELSE answer.semantic
                        score == FinalScore(semantic)
                        status == StatusOf(score)
                    IN  /\ validation_status' = status
                        /\ validation_score' = score
                        /\ detailed_feedback' = semantic
                        /\ story_issues' = semantic.story_issues
                        /\ current_phase' = IF status = APPROVED THEN "generate_tasks"
                                            ELSE "story_generation"
                        /\ iteration_count' = IF status # APPROVED THEN iteration_count + 1
                                              ELSE iteration_count
                        /\ UNCHANGED last_error
    /\ val_passes' = val_passes + 1
    /\ steady_scores' =
          /\ steady_scores
          /\ validation_score' >= Pts(50) /\ validation_score' < Pts(80)
          /\ (val_passes > 0 => validation_score' >= validation_score - Pts(10))
          /\ current_phase' # "error"
    /\ pc' = "determine_next_step"
    /\ UNCHANGED << cfg_max_iterations, state_shared, graph, inputs, task_status, webhooks, llm_tasks, storage_error, feedback_section, run_result, max_iterations,
                    previous_validation_score, user_stories, previous_user_stories,
                    tasks, storage_success, llm_stories, decision,
                    seen_previous_score, gen_passes, retries >>

\* ---------------------------------------------------- determine_next_step
\* state.get("max_iterations", max_iterations)
MaxIterOf(field, default) == IF field = 0 THEN default ELSE field

\* also counts the evaluation as an iteration
route_after_validation_counting ==
    /\ pc = "determine_next_step"
    /\ LET result ==
              IF graph = "workflow"
              THEN determine_next_step(validation_status, validation_score,
                          iteration_count,
                          MaxIterOf(max_iterations, cfg_max_iterations),
                          previous_validation_score)
              ELSE determine_next_step_user_story(validation_status,
                          validation_score, iteration_count,
                          MaxIterOf(max_iterations, cfg_max_iterations))
       IN  /\ decision' = result
           /\ seen_previous_score' =
                 Get(previous_validation_score, Get(validation_score, 0))
           /\ previous_validation_score' =
                 IF result = "needs_revision" /\ state_shared /\ graph = "workflow"
                 THEN Get(validation_score, 0)
                 ELSE previous_validation_score
           /\ iteration_count' =
                 IF result = "needs_revision" THEN iteration_count + 1
                 ELSE iteration_count
           /\ retries' = IF result = "needs_revision" THEN retries + 1 ELSE retries
           /\ pc' = RouteTarget(result)
    /\ UNCHANGED << cfg_max_iterations, state_shared, graph, inputs, task_status, webhooks, llm_tasks, storage_error, feedback_section, run_result,
                    detailed_feedback, story_issues, llm_validation, max_iterations,
                    validation_status, validation_score, user_stories,
                    previous_user_stories, tasks, last_error, current_phase,
                    storage_success, llm_stories, gen_passes, val_passes,
                    steady_scores >>

route_after_validation ==
    /\ pc = "determine_next_step"
    /\ LET result ==
              IF graph = "workflow"
              THEN determine_next_step(validation_status, validation_score,
                          iteration_count,
                          MaxIterOf(max_iterations, cfg_max_iterations),
                          previous_validation_score)
              ELSE determine_next_step_user_story(validation_status,
                          validation_score, iteration_count,
                          MaxIterOf(max_iterations, cfg_max_iterations))
       IN  /\ decision' = result
           /\ seen_previous_score' =
                 Get(previous_validation_score, Get(validation_score, 0))
           /\ previous_validation_score' =
                 IF result = "needs_revision" /\ state_shared /\ graph = "workflow"
                 THEN Get(validation_score, 0)
                 ELSE previous_validation_score
           /\ retries' = IF result = "needs_revision" THEN retries + 1 ELSE retries
           /\ pc' = RouteTarget(result)
    /\ UNCHANGED << cfg_max_iterations, state_shared, graph, inputs, task_status, webhooks, llm_tasks, storage_error, feedback_section, run_result,
                    detailed_feedback, story_issues, llm_validation, max_iterations, iteration_count,
                    validation_status, validation_score, user_stories,
                    previous_user_stories, tasks, last_error, current_phase,
                    storage_success, llm_stories, gen_passes, val_passes,
                    steady_scores >>

\* --------------------------------------------------------- generate_tasks
generate_tasks_on(Answers) ==
    /\ pc = "generate_tasks"
    /\ IF Len(user_stories) = 0
       THEN /\ last_error' = "No user stories available for task generation"
            /\ current_phase' = "error"
            /\ llm_tasks' = << >>
            /\ UNCHANGED tasks
       ELSE \E outcomes \in [1..NumBatches(Len(user_stories)) -> Answers] :
            /\ llm_tasks' = outcomes
            /\ tasks' = GeneratedTasks(user_stories, outcomes)
            /\ current_phase' = "task_assignment"
            /\ UNCHANGED last_error
    /\ pc' = IF graph = "workflow" THEN "save_to_supabase" ELSE "task_creation"
    /\ UNCHANGED << cfg_max_iterations, state_shared, graph, inputs, task_status, webhooks, storage_error, feedback_section, run_result,
                    detailed_feedback, story_issues, llm_validation, max_iterations, iteration_count,
                    validation_status, validation_score, previous_validation_score,
                    user_stories, previous_user_stories, storage_success,
                    llm_stories, decision, seen_previous_score, gen_passes,
                    val_passes, retries, steady_scores >>

\* ------------------------------------------------ save_project_to_supabase
\* records no storage_error when the client is not available
save_project_to_supabase_silent ==
    /\ pc = "save_to_supabase"
    /\ \E outcome \in {"unavailable", "stored", "raise"} :
        /\ storage_success' = IF outcome = "stored" THEN "true" ELSE "false"
        /\ storage_error' = IF outcome = "raise" THEN "Supabase storage failed"
                            ELSE storage_error
        /\ current_phase' = IF outcome = "stored" THEN "storage_complete"
                            ELSE IF outcome = "raise" THEN "storage_failed"
                            ELSE current_phase
    /\ pc' = "project_complete"
    /\ UNCHANGED << cfg_max_iterations, state_shared, graph, inputs, task_status, webhooks, llm_tasks, feedback_section,
                    run_result, detailed_feedback, story_issues, llm_validation,
                    max_iterations, iteration_count, validation_status,
                    validation_score, previous_validation_score, user_stories,
                    previous_user_stories, tasks, last_error, llm_stories, decision,
                    seen_previous_score, gen_passes, val_passes, retries,
                    steady_scores >>

\* the client is unavailable (no package, no credentials), the inserts
\* succeed, or one of them raises
save_project_to_supabase ==
    /\ pc = "save_to_supabase"
    /\ \E outcome \in {"unavailable", "stored", "raise"} :
        /\ storage_success' = IF outcome = "stored" THEN "true" ELSE "false"
        /\ storage_error' = IF outcome = "stored" THEN storage_error
                            ELSE IF outcome = "raise" THEN "Supabase storage failed"
                            ELSE "Supabase not available"
        /\ current_phase' = IF outcome = "stored" THEN "storage_complete"
                            ELSE IF outcome = "raise" THEN "storage_failed"
                            ELSE current_phase
    /\ pc' = "project_complete"
    /\ UNCHANGED << cfg_max_iterations, state_shared, graph, inputs, task_status, webhooks, llm_tasks, feedback_section, run_result,
                    detailed_feedback, story_issues, llm_validation, max_iterations, iteration_count,
                    validation_status, validation_score, previous_validation_score,
                    user_stories, previous_user_stories, tasks, last_error,
                    llm_stories, decision, seen_previous_score, gen_passes,
                    val_passes, retries, steady_scores >>

\* ================================================================== inputs
\* answers of the story-generation call explored in a whole run
RawStory(id, ac, priority, points, deps) ==
    [id |-> id, acceptance_criteria |-> ac, priority |-> priority,
     estimated_points |-> points, dependencies |-> deps]

\* a raw story that leaves priority, estimated_points and dependencies out
Story(id, ac) == RawStory(id, ac, Absent, NoPoints, << >>)

RunStoryLists ==
    { << >>,
      << Story("US001", << "c1", "c2", "c3" >>), Story("US001", << "c1" >>) >> }

RunMissing == { << >>, MissingElements(1, TRUE) }

\* answers of the scoring call: reported scores in tenths of a point
RawScoreTenths == {0 - 100, 0, 499, 500, 599, 600, 699, 700, 799, 800, 849, 850, 1000, 1500}
RunScoreTenths == {0, 299, 300, 499, 500, 599, 600, 699, 700, 799, 800, 850}

Analysis(a, b, c) ==
    [present |-> TRUE, source_coverage_score |-> a,
     integration_quality |-> b, conflict_resolution_score |-> c]

RunAnalyses ==
    { EmptyAnalysis,
      Analysis(Num(Pts(80)), Num(Pts(80)), Num(Pts(80))) }

DictAnswer(semantic) == [kind |-> "dict", semantic |-> semantic]

RunValidationAnswers ==
    { [kind |-> "raise"], [kind |-> "malformed"],
      DictAnswer(SemanticWith(Semantic(Num(Pts(60)), EmptyAnalysis, << "critical" >>,
                                       << "recommendation" >>, << "issue" >>),
                              << "missed" >>)) }
    \cup { DictAnswer(Semantic(v, ma, << >>, << >>, << >>)) :
           v \in {NoValue} \cup { Num(Tenths(t)) : t \in RunScoreTenths },
           ma \in RunAnalyses }

RawTask(story_id, hours, is_dict) ==
    [story_id |-> story_id, estimated_hours |-> hours, category |-> "backend",
     title |-> "model task", is_dict |-> is_dict]

RunBatchAnswers ==
    { [kind |-> "raise", tasks |-> << >>],
      [kind |-> "list", tasks |-> << >>],
      [kind |-> "list", tasks |-> << RawTask(Absent, Num(100), TRUE),
                                     RawTask("US001", NoValue, FALSE) >>],
      [kind |-> "list", tasks |-> << RawTask("US002", Num(1), TRUE) >>],
      [kind |-> "list", tasks |-> << RawTask("US001", NonNumeric, TRUE) >>] }

\* ============================================================ the workflow
generate_stories == generate_stories_on(RunStoryLists, RunMissing)
validate_stories == validate_stories_on(RunValidationAnswers)
generate_tasks == generate_tasks_on(RunBatchAnswers)

Next ==
    \/ initialize_iteration_tracking
    \/ generate_stories
    \/ validate_stories
    \/ route_after_validation
    \/ generate_tasks
    \/ save_project_to_supabase

Spec == Init /\ [][Next]_vars

\* ================================================ _run_multimodal_workflow
\* what test_multimodal_workflow returns for the final state of the stream;
\* an absent last_error reads as the default
test_multimodal_workflow_no_default(stories, error_field, status_field) ==
    IF Len(stories) > 0
    THEN [success |-> TRUE, error |-> "none", status |-> status_field]
    ELSE [success |-> FALSE, error |-> error_field, status |-> "none"]

test_multimodal_workflow(stories, error_field, status_field) ==
    IF Len(stories) > 0
    THEN [success |-> TRUE, error |-> "none", status |-> status_field]
    ELSE [success |-> FALSE,
          error |-> IF error_field = "none" THEN "Unknown error occurred"
                    ELSE error_field,
          status |-> "none"]

\* the graph has ended at one of its terminal nodes and the wrapper turns
\* the result of test_multimodal_workflow into its response
workflow_returns ==
    /\ pc \in {"task_creation", "project_complete", "human_review"}
    /\ LET results == test_multimodal_workflow(user_stories, last_error,
                                               validation_status)
       IN  run_result' =
              IF results.success
              THEN [success |-> TRUE, error |-> "none", status |-> results.status]
              ELSE [success |-> FALSE, error |-> results.error, status |-> "failed"]
    /\ pc' = "returned"
    /\ UNCHANGED << cfg_max_iterations, state_shared, graph, inputs, task_status, webhooks, llm_tasks, storage_error, feedback_section, max_iterations,
                    iteration_count, validation_status, validation_score,
                    previous_validation_score, user_stories, previous_user_stories,
                    tasks, last_error, current_phase, storage_success, llm_stories,
                    decision, seen_previous_score, gen_passes, val_passes, retries,
                    steady_scores, detailed_feedback, story_issues, llm_validation >>

\* test_multimodal_workflow raises: before the graph runs (no API key, an
\* unreadable document) or out of app.stream once the revision loop has run
\* past the recursion limit of the graph, for which MaxPasses stands here
workflow_raises ==
    /\ \/ pc = "initialize"
       \/ pc = "generate_stories" /\ gen_passes >= MaxPasses
    /\ run_result' = [success |-> FALSE, error |-> "Workflow execution failed",
                      status |-> "error"]
    /\ pc' = "returned"
    /\ UNCHANGED << cfg_max_iterations, state_shared, graph, inputs, task_status, webhooks, llm_tasks, storage_error, feedback_section, max_iterations,
                    iteration_count, validation_status, validation_score,
                    previous_validation_score, user_stories, previous_user_stories,
                    tasks, last_error, current_phase, storage_success, llm_stories,
                    decision, seen_previous_score, gen_passes, val_passes, retries,
                    steady_scores, detailed_feedback, story_issues, llm_validation >>

\* the graph of user_story.py, which test_multimodal_workflow compiles
InitRun ==
    InitialState /\ graph = "user_story" /\ state_shared = TRUE /\ inputs = TextInputs

NextRun ==
    \/ initialize_iteration_tracking
    \/ generate_stories
    \/ validate_stories
    \/ route_after_validation
    \/ generate_tasks
    \/ workflow_returns
    \/ workflow_raises

SpecRun == InitRun /\ [][NextRun]_vars

TypeOK ==
    /\ pc \in {"initialize", "generate_stories", "validate_stories",
                "determine_next_step", "generate_tasks", "save_to_supabase",
                "project_complete", "task_creation", "human_review", "returned"}
    /\ iteration_count \in Nat
    /\ validation_status \in ValidationStatus \cup {NoStatus}

\* ===================================== determine_next_step as a function
\* the routing function applied to a state dict whose fields are drawn from
\* the scores around its thresholds; a previous score is present only after
\* a revision round (PreviousScoreImpliesIterated)
DecisionScores ==
    { Tenths(t) : t \in {0, 299, 300, 499, 500, 599, 600, 601, 699, 700, 701,
                         750, 799, 800, 849, 850, 900, 1000} }

InitDecision ==
    /\ pc = "determine_next_step"
    /\ cfg_max_iterations \in 1..MaxIter
    /\ state_shared = TRUE
    /\ max_iterations \in 0..MaxIter
    /\ iteration_count \in 0..(MaxIter + 1)
    /\ validation_status \in ValidationStatus \cup {NoStatus}
    /\ validation_score \in DecisionScores \cup {NoScore}
    /\ previous_validation_score \in DecisionScores \cup {NoScore}
    /\ (previous_validation_score # NoScore => iteration_count > 0)
    /\ user_stories = << >>
    /\ previous_user_stories = << >>
    /\ tasks = << >>
    /\ last_error = "none"
    /\ current_phase = "story_generation"
    /\ storage_success = "unset"
    /\ llm_stories = NoAnswer
    /\ decision = "none"
    /\ seen_previous_score = NoScore
    /\ gen_passes = 0
    /\ val_passes = 0
    /\ retries = 0
    /\ steady_scores = TRUE
    /\ graph = "workflow"
    /\ detailed_feedback = NoFeedback
    /\ story_issues = << >>
    /\ llm_validation = "none"
    /\ run_result = NoResult
    /\ llm_tasks = << >>
    /\ storage_error = "none"
    /\ feedback_section = << >>
    /\ inputs = TextInputs
    /\ task_status = IN_PROGRESS
    /\ webhooks = NoWebhooks

NextDecision == route_after_validation

SpecDecision == InitDecision /\ [][NextDecision]_vars

\* ============================== generate_stories on arbitrary raw answers
RawIds == {Absent, "", "US001", "US002"}

SeqsUpTo(S, n) == UNION { [1..k -> S] : k \in 0..n }

\* acceptance criteria lists of every length up to MaxCriteria, alternating
\* two distinct criteria from either one
RawCriteria ==
    { [j \in 1..k |-> IF (j + f) % 2 = 0 THEN "c1" ELSE "c2"] :
        k \in 0..MaxCriteria, f \in {0, 1} }

\* USER_STORY_JSON_SCHEMA: maxItems of acceptance_criteria, the priority enum
\* and the estimated_points enum
SchemaMaxCriteria == 7
SchemaPriorities == {"high", "medium", "low"}
SchemaPoints == {1, 2, 3, 5, 8, 13}

\* one criterion more than the schema allows
LongCriteria == [j \in 1..(SchemaMaxCriteria + 1) |-> "c1"]

\* raw stories that vary the id and the criteria, and raw stories that vary
\* priority, estimated_points and dependencies inside and outside the schema
RawStories ==
    { Story(id, ac) : id \in RawIds, ac \in RawCriteria \cup {LongCriteria} }
    \cup { RawStory(Absent, << "c2", "c1", "c2" >>, priority, points, deps) :
             priority \in {Absent, "low", "urgent"},
             points \in {NoPoints, 4},
             deps \in {<< >>, << "US002" >>} }

AllStoryLists == SeqsUpTo(RawStories, MaxRawStories)

AllMissingElements ==
    { MissingElements(ncore, tech) : ncore \in 0..MaxCoreFeatures, tech \in BOOLEAN }

generate_stories_any == generate_stories_on(AllStoryLists, AllMissingElements)

InitGen == Init /\ cfg_max_iterations = 1 /\ state_shared = TRUE

NextGen ==
    \/ initialize_iteration_tracking
    \/ generate_stories_any

SpecGen == InitGen /\ [][NextGen]_vars

\* =============================== validate_stories on arbitrary answers
\* stored stories: generate_stories keeps the dependencies the model
\* returned, so any dependency graph over the renumbered ids can be stored
StoredStory(n, deps) ==
    [id |-> FormatStoryId(n), acceptance_criteria |-> << "c1", "c2", "c3" >>,
     priority |-> DefaultPriority, estimated_points |-> DefaultPoints,
     dependencies |-> deps]

DagStories ==
    << StoredStory(1, << >>), StoredStory(2, << "US001" >>),
       StoredStory(3, << "US001", "US002" >>) >>

TwoCycleStories ==
    << StoredStory(1, << "US002" >>), StoredStory(2, << "US001" >>) >>

ThreeCycleStories ==
    << StoredStory(1, << "US002" >>), StoredStory(2, << "US003" >>),
       StoredStory(3, << "US001" >>) >>

StoredStoryLists == { << >>, DagStories, TwoCycleStories, ThreeCycleStories }

CycleIssue == "Circular dependency"

\* the issue lists the scoring call may report
AllIssues == { << >>, << CycleIssue >>, << "i1", "i2", "i3" >> }

AllAnalyses ==
    { EmptyAnalysis,
      Analysis(NoValue, NoValue, NoValue),
      Analysis(Num(Pts(80)), Num(Pts(80)), Num(Pts(80))),
      Analysis(Num(Pts(200)), NonNumeric, Num(Pts(100))),
      Analysis(NaNValue, Num(Pts(100)), Num(Pts(100))) }

AllValidationAnswers ==
    { [kind |-> "raise"], [kind |-> "malformed"] }
    \cup { DictAnswer(Semantic(v, ma, << >>, << >>, issues)) :
           v \in {NoValue, NonNumeric, NaNValue}
                 \cup { Num(Tenths(t)) : t \in RawScoreTenths },
           ma \in AllAnalyses,
           issues \in AllIssues }

validate_stories_any == validate_stories_on(AllValidationAnswers)

\* the state a validation pass starts from: after initialize and a
\* generation pass, in the first round or after one revision round
InitVal ==
    /\ pc = "validate_stories"
    /\ cfg_max_iterations \in 1..MaxIter
    /\ state_shared = TRUE
    /\ max_iterations = cfg_max_iterations
    /\ iteration_count \in 0..1
    /\ validation_status \in {NoStatus, NEEDS_REVISION}
    /\ validation_score \in {NoScore, Pts(70)}
    /\ previous_validation_score \in {NoScore, Pts(70)}
    /\ (iteration_count = 0 <=> validation_status = NoStatus)
    /\ (iteration_count = 0 <=> validation_score = NoScore)
    /\ (iteration_count = 0 => previous_validation_score = NoScore)
    /\ user_stories \in StoredStoryLists
    /\ previous_user_stories = << >>
    /\ tasks = << >>
    /\ last_error = "none"
    /\ current_phase = "story_validation"
    /\ storage_success = "unset"
    /\ llm_stories = NoAnswer
    /\ decision = "none"
    /\ seen_previous_score = NoScore
    /\ gen_passes = 1
    /\ val_passes = 0
    /\ retries = 0
    /\ steady_scores = TRUE
    /\ graph = "workflow"
    /\ detailed_feedback = NoFeedback
    /\ story_issues = << >>
    /\ llm_validation = "none"
    /\ run_result = NoResult
    /\ llm_tasks = << >>
    /\ storage_error = "none"
    /\ feedback_section = << >>
    /\ inputs = TextInputs
    /\ task_status = IN_PROGRESS
    /\ webhooks = NoWebhooks

NextVal ==
    \/ validate_stories_any
    \/ route_after_validation

SpecVal == InitVal /\ [][NextVal]_vars

\* -------------------------------------------- task generation, wide inputs
\* the stories of an accepted list, as generate_stories stores them
AcceptedStories(n) == [k \in 1..n |-> StoredStory(k, << >>)]

\* raw tasks a batch call may return: a missing story_id, one that names no
\* story of the first batch (US008 belongs to the second batch of eight
\* stories) and one that does, hours below and above the range, absent,
\* null and non-numeric, and an item that is not a JSON object
RawTasks ==
    { RawTask(Absent, Num(100), TRUE),
      RawTask("US008", Num(1), TRUE),
      RawTask("US001", NoValue, TRUE),
      RawTask("US002", NonNumeric, TRUE),
      RawTask("US001", NullValue, TRUE),
      RawTask("US001", Num(8), FALSE) }

AllBatchAnswers ==
    { [kind |-> "raise", tasks |-> << >>] }
    \cup { [kind |-> "list", tasks |-> ts] : ts \in SeqsUpTo(RawTasks, MaxRawTasks) }

generate_tasks_any == generate_tasks_on(AllBatchAnswers)

\* the state generate_tasks starts from in workflow.py: the router has
\* accepted a non-empty story list
InitTasks ==
    /\ pc = "generate_tasks"
    /\ cfg_max_iterations = 1
    /\ state_shared = TRUE
    /\ max_iterations = cfg_max_iterations
    /\ iteration_count = 0
    /\ validation_status = APPROVED
    /\ validation_score = Pts(85)
    /\ previous_validation_score = NoScore
    /\ \E n \in 1..MaxStories : user_stories = AcceptedStories(n)
    /\ previous_user_stories = << >>
    /\ tasks = << >>
    /\ last_error = "none"
    /\ current_phase = "story_validation"
    /\ storage_success = "unset"
    /\ llm_stories = NoAnswer
    /\ decision = "approved"
    /\ seen_previous_score = NoScore
    /\ gen_passes = 1
    /\ val_passes = 1
    /\ retries = 0
    /\ steady_scores = TRUE
    /\ graph = "workflow"
    /\ detailed_feedback = NoFeedback
    /\ story_issues = << >>
    /\ llm_validation = "dict"
    /\ run_result = NoResult
    /\ llm_tasks = << >>
    /\ storage_error = "none"
    /\ feedback_section = << >>
    /\ inputs = TextInputs
    /\ task_status = IN_PROGRESS
    /\ webhooks = NoWebhooks

NextTasks == generate_tasks_any

SpecTasks == InitTasks /\ [][NextTasks]_vars

\* ------------------------------------------- whole runs on either input
\* scoring answers that take a run down each branch of the router
FrameValidationAnswers ==
    { [kind |-> "raise"], [kind |-> "malformed"] }
    \cup { DictAnswer(Semantic(Num(Pts(points)), EmptyAnalysis, << >>, << >>, << >>)) :
           points \in {40, 60, 75, 85} }

FrameBatchAnswers ==
    { [kind |-> "raise", tasks |-> << >>],
      [kind |-> "list", tasks |-> << RawTask("US002", Num(1), TRUE) >>] }

generate_stories_frame == generate_stories_on(RunStoryLists, RunMissing)
validate_stories_frame == validate_stories_on(FrameValidationAnswers)
generate_tasks_frame == generate_tasks_on(FrameBatchAnswers)

InitFrame == InitialState /\ graph = "workflow" /\ inputs \in RunInputs

NextFrame ==
    \/ initialize_iteration_tracking
    \/ generate_stories_frame
    \/ validate_stories_frame
    \/ route_after_validation
    \/ generate_tasks_frame
    \/ save_project_to_supabase

SpecFrame == InitFrame /\ [][NextFrame]_vars

\* ====================================================== the GitHub webhook
\* every variable of the story workflow
workflow_vars ==
    << pc, cfg_max_iterations, state_shared, max_iterations, iteration_count,
       validation_status, validation_score, previous_validation_score,
       user_stories, previous_user_stories, tasks, last_error, current_phase,
       storage_success, llm_stories, decision, seen_previous_score, gen_passes,
       val_passes, retries, steady_scores, graph, detailed_feedback, story_issues,
       llm_validation, run_result, llm_tasks, storage_error, feedback_section,
       inputs >>

\* the X-Hub-Signature-256 header: absent, without the "sha256=" prefix,
\* with a digest of another secret or body, or with the digest of this
\* body under the configured secret
Signature(present, prefixed, matches) ==
    [present |-> present, prefixed |-> prefixed, matches |-> matches]

Signatures ==
    { Signature(FALSE, FALSE, FALSE), Signature(TRUE, FALSE, FALSE),
      Signature(TRUE, TRUE, FALSE), Signature(TRUE, TRUE, TRUE) }

verify_github_signature(signature) ==
    IF ~signature.present THEN FALSE
    ELSE IF ~signature.prefixed THEN FALSE
    ELSE signature.matches

\* payload.get("action"); "none" when the key is absent
Actions == { "opened", "synchronize", "reopened", "closed", "none" }
ProcessedActions == { "opened", "synchronize", "reopened" }

Raised(exception, status_code) ==
    [kind |-> "raise", exception |-> exception, status_code |-> status_code,
     status |-> "none"]
Returned(status) ==
    [kind |-> "return", exception |-> "none", status_code |-> 200, status |-> status]

\* the body of the try block of github_webhook
WebhookBody(secret, signature, json_ok, action, env_ok) ==
    IF ~secret THEN Raised("HTTPException", 500)
    ELSE IF ~verify_github_signature(signature) THEN Raised("HTTPException", 401)
    ELSE IF ~json_ok THEN Raised("JSONDecodeError", 0)
    ELSE IF action \notin ProcessedActions THEN Returned("ignored")
    ELSE IF ~env_ok THEN Raised("HTTPException", 500)
    ELSE Returned("accepted")

\* the except clauses: JSONDecodeError first, then Exception, which is a
\* base class of HTTPException
WebhookResponse(body) ==
    IF body.kind = "return" THEN 200
    ELSE IF body.exception = "JSONDecodeError" THEN 400
    ELSE 500

\* request p arrives at POST /api/github-webhook
github_webhook(p) ==
    /\ webhooks[p].pc = "idle"
    /\ \E secret \in BOOLEAN, signature \in Signatures, json_ok \in BOOLEAN,
          action \in Actions, env_ok \in BOOLEAN :
          LET body == WebhookBody(secret, signature, json_ok, action, env_ok)
              accepted == body.kind = "return" /\ body.status = "accepted"
          IN  webhooks' = [webhooks EXCEPT ![p] =
                  [@ EXCEPT !.pc = IF accepted THEN "scheduled" ELSE "done",
                            !.action = action,
                            !.secret_set = secret,
                            !.verified = secret /\ verify_github_signature(signature),
                            !.response = WebhookResponse(body),
                            !.scheduled = accepted]]
    /\ UNCHANGED task_status
    /\ UNCHANGED workflow_vars

\* process_github_webhook_background up to the status update: the payload
\* has pull-request data or not, a task id is found in the title or the
\* branch name or not, and a query may raise
process_github_webhook_background(p) ==
    /\ webhooks[p].pc = "scheduled"
    /\ \E has_pr \in BOOLEAN, has_task_id \in BOOLEAN, raises \in BOOLEAN :
          webhooks' = [webhooks EXCEPT ![p].pc =
              IF has_pr /\ has_task_id /\ ~raises /\ webhooks[p].action = "opened"
              THEN "move_task_to_review"
              ELSE "done"]
    /\ UNCHANGED task_status
    /\ UNCHANGED workflow_vars

\* moves whatever is not in review yet
MoveDecision_any(current_status) ==
    IF current_status = IN_REVIEW THEN "already"
    ELSE "update"

\* lines 504-511
MoveDecision(current_status) ==
    IF current_status = IN_REVIEW THEN "already"
    ELSE IF current_status # IN_PROGRESS THEN "refuse"
    ELSE "update"

\* move_task_to_review, the select: the query raises, finds no row, or
\* reads the row's status_id
move_task_to_review_select(p) ==
    /\ webhooks[p].pc = "move_task_to_review"
    /\ \E outcome \in {"raise", "not_found", "row"} :
          webhooks' = [webhooks EXCEPT ![p] =
              IF outcome # "row"
              THEN [@ EXCEPT !.pc = "done", !.moved = "false"]
              ELSE LET todo == MoveDecision(task_status)
                   IN  [@ EXCEPT !.read_status = task_status,
                                 !.pc = IF todo = "update" THEN "update" ELSE "done",
                                 !.moved = IF todo = "already" THEN "true"
                                           ELSE IF todo = "refuse" THEN "false"
                                           ELSE "none"]]
    /\ UNCHANGED task_status
    /\ UNCHANGED workflow_vars

\* move_task_to_review, the update by row id: it raises, matches no row, or
\* sets status_id to 3 whatever the status is by now
move_task_to_review_update(p) ==
    /\ webhooks[p].pc = "update"
    /\ \E outcome \in {"raise", "no_data", "updated"} :
          /\ task_status' = IF outcome = "updated" THEN IN_REVIEW ELSE task_status
          /\ webhooks' = [webhooks EXCEPT ![p] =
                [@ EXCEPT !.pc = "done",
                          !.overwritten = IF outcome = "updated" THEN task_status ELSE 0,
                          !.moved = IF outcome = "updated" THEN "true" ELSE "false"]]
    /\ UNCHANGED workflow_vars

\* any other writer of the task row (the board, another service instance)
other_writer ==
    /\ \E status \in StatusIds \ {task_status} : task_status' = status
    /\ UNCHANGED webhooks
    /\ UNCHANGED workflow_vars

InitHooks == Init /\ cfg_max_iterations = 1 /\ state_shared = TRUE

NextHooks ==
    \/ \E p \in 1..MaxHooks : github_webhook(p)
    \/ \E p \in 1..MaxHooks : process_github_webhook_background(p)
    \/ \E p \in 1..MaxHooks : move_task_to_review_select(p)
    \/ \E p \in 1..MaxHooks : move_task_to_review_update(p)
    \/ other_writer

SpecHooks == InitHooks /\ [][NextHooks]_vars

\* --------------------------------------- runs whose scoring call is down
\* chain.invoke of validate_stories raises on every pass
validate_stories_outage == validate_stories_on({ [kind |-> "raise"] })

NextOutage ==
    \/ initialize_iteration_tracking
    \/ generate_stories
    \/ validate_stories_outage
    \/ route_after_validation

\* the compiled graph runs the next node until it reaches END
SpecOutage == Init /\ [][NextOutage]_vars /\ WF_vars(NextOutage)

\* ================================================================ properties
Score == Get(validation_score, 0)
MaxIt == MaxIterOf(max_iterations, cfg_max_iterations)

\* the routing function has just returned: pc is the node it routed to
JustRouted ==
    \/ pc \in {"generate_tasks", "human_review"}
    \/ pc = "generate_stories" /\ decision = "needs_revision"

\* the score is more than 10 points below the previous score the router read
Dropped == Score < seen_previous_score - Pts(10)

\* in a run a previous score exists only after a revision round
PreviousScoreImpliesIterated ==
    previous_validation_score # NoScore => iteration_count > 0

\* C1: from iteration_count = 0 and max_iterations >= 1, whatever the
\* external calls return or raise, a run performs at most max_iterations
\* story-generation passes before it reaches a terminal node.
C1_AtMostMaxIterationsPasses == gen_passes <= MaxIt

\* C2: determine_next_step returns 'approved' (routed to generate_tasks)
\* whenever the status is Approved or the score is >= 85, for every
\* iteration_count, max_iterations and previous score.
C2_AcceptsApprovedOrHighScore ==
    (JustRouted /\ (validation_status = APPROVED \/ Score >= Pts(85)))
        => (decision = "approved" /\ pc = "generate_tasks")

C2_Witness ==
    /\ pc = "generate_tasks" /\ decision = "approved"
    /\ validation_status = NEEDS_REVISION /\ Score = Pts(85)
    /\ iteration_count < MaxIt

C4_SalvageAtExhaustion ==
    (JustRouted /\ validation_status # APPROVED /\ Score < Pts(85)
        /\ iteration_count >= MaxIt)
        => IF Score >= Pts(70)
           THEN decision = "approved" /\ pc = "generate_tasks"
           ELSE decision = "max_iterations" /\ pc = "human_review"

C4_Witness ==
    /\ pc = "generate_tasks" /\ decision = "approved"
    /\ validation_status # APPROVED /\ Score = Pts(70)
    /\ iteration_count = MaxIt /\ seen_previous_score = Pts(100)

\* C5: when the result is not accepted by status or fast path and
\* iteration_count < max_iterations, a score more than 10 points below the
\* previous score ends the loop (Accepted if >= 60, Escalated otherwise,
\* never Retrying); a drop of exactly 10 points is not a degradation.
C5_DegradationStops ==
    (JustRouted /\ validation_status # APPROVED /\ Score < Pts(85)
        /\ iteration_count < MaxIt)
        => /\ (Dropped =>
                 IF Score >= Pts(60)
                 THEN decision = "approved" /\ pc = "generate_tasks"
                 ELSE decision = "max_iterations" /\ pc = "human_review")
           /\ (Score = seen_previous_score - Pts(10) /\ Score < Pts(80) =>
                 decision = IF Score >= Pts(50) THEN "needs_revision" ELSE "low_quality")

C5_Witness ==
    /\ pc = "generate_tasks" /\ decision = "approved"
    /\ validation_status # APPROVED /\ Score = Pts(75)
    /\ seen_previous_score = Pts(90) /\ iteration_count < MaxIt

\* C6: when the result is not accepted, iteration_count < max_iterations and
\* the score has not degraded, the decision is Retrying (back to
\* generate_stories) exactly when the score is >= 50; below 50 it is
\* Escalated (human_review).
C6_RetryFloor ==
    (JustRouted /\ validation_status # APPROVED /\ Score < Pts(80)
        /\ iteration_count < MaxIt /\ ~Dropped)
        => /\ (decision = "needs_revision" <=> Score >= Pts(50))
           /\ (Score >= Pts(50) => pc = "generate_stories")
           /\ (Score < Pts(50) => decision = "low_quality" /\ pc = "human_review")

C6_Witness ==
    /\ pc = "human_review" /\ decision = "low_quality"
    /\ validation_status # APPROVED /\ Score = Tenths(499)
    /\ iteration_count < MaxIt /\ ~Dropped

C8_OneRetryAtTwoIterations ==
    (MaxIt = 2 /\ steady_scores)
        => /\ retries <= 1 /\ gen_passes <= 2 /\ val_passes <= 2
           /\ (pc = "generate_stories" /\ val_passes > 0 =>
                 retries = 1 /\ val_passes = 1)
           /\ (pc \in {"generate_tasks", "save_to_supabase", "project_complete",
                        "human_review"} =>
                 /\ retries = 1 /\ gen_passes = 2 /\ val_passes = 2
                 /\ IF Score >= Pts(70)
                    THEN decision = "approved" /\ pc # "human_review"
                    ELSE decision = "max_iterations" /\ pc = "human_review")

C8_Witness ==
    /\ MaxIt = 2 /\ steady_scores /\ pc = "human_review"
    /\ retries = 1 /\ gen_passes = 2 /\ val_passes = 2

\* C9: after every successful generate_stories pass the ids of user_stories
\* are exactly US001..USn in list order, whatever ids the model returned and
\* including the gap stories the coverage check appended.
CanonicalStoryIds ==
    << "US001", "US002", "US003", "US004", "US005",
       "US006", "US007", "US008", "US009", "US010" >>

C9_SequentialStoryIds ==
    (pc = "validate_stories" /\ llm_stories.kind = "list")
        => /\ Len(user_stories) <= Len(CanonicalStoryIds)
           /\ \A i \in 1..Len(user_stories) : user_stories[i].id = CanonicalStoryIds[i]

C9_Witness ==
    /\ pc = "validate_stories" /\ llm_stories.kind = "list"
    /\ Len(llm_stories.stories) = 2
    /\ llm_stories.stories[1].id = "US002" /\ llm_stories.stories[2].id = "US002"
    /\ Len(user_stories) = 5
    /\ user_stories[5].id = "US005"

\* C10: after every successful generate_stories pass every story has at
\* least 3 acceptance criteria; a story that arrived with k < 3 criteria keeps
\* them unchanged and in order as its first k entries, followed by padding
\* each entry of which is "Enhanced: " plus the entry before it (the default
\* criterion when there is none).
C10_CriteriaFloor ==
    (pc = "validate_stories" /\ llm_stories.kind = "list")
        => /\ \A i \in 1..Len(user_stories) :
                 Len(user_stories[i].acceptance_criteria) >= 3
           /\ \A i \in 1..Len(llm_stories.stories) :
                 LET raw == llm_stories.stories[i].acceptance_criteria
                     out == user_stories[i].acceptance_criteria
                     k == Len(raw)
                 IN  k < 3 =>
                       /\ Len(out) = 3
                       /\ SubSeq(out, 1, k) = raw
                       /\ \A j \in (k + 1)..3 :
                             out[j] = "Enhanced: " \o
                                 (IF j = 1 THEN DefaultCriterion ELSE out[j - 1])

C10_Witness ==
    /\ pc = "validate_stories" /\ llm_stories.kind = "list"
    /\ Len(llm_stories.stories) >= 1
    /\ llm_stories.stories[1].acceptance_criteria = << "c2" >>
    /\ user_stories[1].acceptance_criteria =
          << "c2", "Enhanced: c2", "Enhanced: Enhanced: c2" >>

\* a generation pass has just stored the post-processed answer of the model
GeneratedOk == pc = "validate_stories" /\ llm_stories.kind = "list"

StoryIds(stories) == { stories[i].id : i \in 1..Len(stories) }

\* C11: after every successful generate_stories pass every story of
\* user_stories has at most 7 acceptance criteria, a priority in
\* {high, medium, low} and estimated_points in {1,2,3,5,8,13}, whatever the
\* model returned.
C11_StoriesWithinSchema ==
    GeneratedOk =>
        \A i \in 1..Len(user_stories) :
            /\ Len(user_stories[i].acceptance_criteria) <= SchemaMaxCriteria
            /\ user_stories[i].priority \in SchemaPriorities
            /\ user_stories[i].estimated_points \in SchemaPoints

\* C12: after generate_stories has renumbered the stories, every id in every
\* story's dependencies is the id of a story of the same user_stories list
\* and is never the story's own id.
C12_DependenciesResolve ==
    GeneratedOk =>
        \A i \in 1..Len(user_stories) :
            \A d \in 1..Len(user_stories[i].dependencies) :
                /\ user_stories[i].dependencies[d] \in StoryIds(user_stories)
                /\ user_stories[i].dependencies[d] # user_stories[i].id

\* the scoring call answered or raised, and validate_stories stored a verdict
Validated == llm_validation \in {"dict", "raise"}

\* the ids that story number i depends on through at most n dependency steps
RECURSIVE DependsWithin(_, _, _)
DependsWithin(stories, i, n) ==
    IF n = 0 THEN {}
    ELSE LET direct == { stories[i].dependencies[d] :
                           d \in 1..Len(stories[i].dependencies) }
         IN  direct \cup
             UNION { DependsWithin(stories, j, n - 1) :
                       j \in { k \in 1..Len(stories) : stories[k].id \in direct } }

HasCycle(stories) ==
    \E i \in 1..Len(stories) :
        stories[i].id \in DependsWithin(stories, i, Len(stories))

RecordedIssues == story_issues \o detailed_feedback.critical_issues

CycleIssueRecorded ==
    \E i \in 1..Len(RecordedIssues) : RecordedIssues[i] = CycleIssue

\* C13: story validation detects dependency cycles: for a story set whose
\* dependencies form a 2-cycle or a 3-cycle the validator records a cycle
\* issue (and the set is not Approved without it), and for an acyclic
\* dependency graph it records none.
C13_CyclesDetected ==
    Validated => (HasCycle(user_stories) <=> CycleIssueRecorded)

\* C14: validate_stories derives the status from the final score and the
\* issue count: score >= 80 and fewer than 3 issues is Approved, otherwise
\* score >= 60 is NeedsRevision, otherwise NeedsClarification; a story set
\* with 3 or more recorded issues is never Approved.
C14_StatusFromScoreAndIssues ==
    Validated =>
        validation_status =
            IF validation_score >= Pts(80) /\ Len(RecordedIssues) < 3 THEN APPROVED
            ELSE IF validation_score >= Pts(60) THEN NEEDS_REVISION
            ELSE NEEDS_CLARIFICATION

\* C15: whatever validation_score and multimodal_analysis sub-scores the
\* model reports (negative, above 100, missing, non-numeric), the
\* validation_score that validate_stories stores lies in [0, 100].
C15_ScoreClamped ==
    llm_validation # "none" /\ validation_score # NoScore
        => validation_score >= 0 /\ validation_score <= Pts(100)

C15_Witness ==
    /\ llm_validation = "dict"
    /\ detailed_feedback.validation_score = Num(Tenths(1500))
    /\ validation_score = Pts(100)

Clamp(score) == Max2(0, Min2(Pts(100), score))

ReportedNumber ==
    llm_validation = "dict" /\ detailed_feedback.validation_score.kind = "num"

Reported == detailed_feedback.validation_score.val

C17_ScoringFailureDegrades ==
    llm_validation = "raise" =>
        /\ validation_score = Pts(50)
        /\ validation_status = NEEDS_CLARIFICATION
        /\ current_phase = "story_generation"
        /\ last_error = "none"
        /\ detailed_feedback.critical_issues = << "Semantic validation failed" >>
        /\ detailed_feedback.recommendations = << "Manual review required." >>
        /\ pc \in {"determine_next_step", "generate_stories", "human_review"}
        /\ (pc # "determine_next_step" =>
              decision = IF iteration_count < MaxIt /\ ~Dropped
                         THEN "needs_revision" ELSE "max_iterations")

C17_Witness ==
    /\ llm_validation = "raise" /\ pc = "generate_stories"
    /\ decision = "needs_revision" /\ validation_score = Pts(50)

\* C18: when the story-generation call raises in any iteration, the pass
\* sets last_error, empties user_stories and sets the phase to error, and the
\* run then ends at human_review with no further generation pass and no
\* tasks.
C18_GenerationFailureEscalates ==
    llm_stories.kind = "raise" =>
        /\ last_error = "Multimodal story generation failed"
        /\ user_stories = << >>
        /\ current_phase = "error"
        /\ tasks = << >>
        /\ pc \in {"validate_stories", "determine_next_step", "human_review"}

C18_Witness ==
    /\ llm_stories.kind = "raise" /\ pc = "human_review"
    /\ gen_passes = 2 /\ retries = 1 /\ iteration_count < MaxIt

\* C19: _run_multimodal_workflow returns, for every outcome of the workflow
\* (also when it raises), an object with a boolean success field, and an
\* object with success false carries an error reason.
C19_StructuredResult ==
    pc = "returned" =>
        /\ run_result.success \in BOOLEAN
        /\ (~run_result.success =>
              run_result.error # "none" /\ run_result.status \in {"failed", "error"})
        /\ (run_result.success => Len(user_stories) > 0)

C19_Witness ==
    /\ pc = "returned" /\ ~run_result.success
    /\ run_result.error = "Unknown error occurred"

\* C20: the run result reports success = false only when the generation call
\* raised: a run whose latest generation call returned normally is never
\* reported as failed.
C20_OnlyGenerationFailureFails ==
    (pc = "returned" /\ llm_stories.kind = "list") => run_result.success

\* ----------------------------------------------------- task decomposition
\* generate_tasks has run on a non-empty story list
TasksGenerated == llm_tasks # << >>

\* generate_tasks has just returned
JustDecomposed == TasksGenerated /\ pc \in {"save_to_supabase", "task_creation"}

TaskStoryIds == { tasks[k].story_id : k \in 1..Len(tasks) }

\* a task without its id and the ids it depends on
Body(task) ==
    [story_id |-> task.story_id, category |-> task.category,
     title |-> task.title, estimated_hours |-> task.estimated_hours]

Bodies(list) == [k \in 1..Len(list) |-> Body(list[k])]

\* what batch i (1-based) contributes for the answers outcomes
BatchResult(outcomes, i) ==
    _generate_batch_tasks(StoryBatch(user_stories, i - 1), outcomes[i], 1)

RECURSIVE BatchOffset(_, _)
BatchOffset(outcomes, i) ==
    IF i = 1 THEN 0
    ELSE BatchOffset(outcomes, i - 1) + Len(BatchResult(outcomes, i - 1))

\* the part of the task list all_tasks that batch i contributed
BatchSegment(all_tasks, outcomes, i) ==
    SubSeq(all_tasks, BatchOffset(outcomes, i) + 1,
           BatchOffset(outcomes, i) + Len(BatchResult(outcomes, i)))

C22_HoursClamped ==
    TasksGenerated =>
        \A k \in 1..Len(tasks) :
            tasks[k].estimated_hours >= MinHours /\ tasks[k].estimated_hours <= MaxHours

C22_Witness ==
    /\ TasksGenerated
    /\ llm_tasks[1].kind = "list"
    /\ llm_tasks[1].tasks = << RawTask(Absent, Num(100), TRUE),
                               RawTask("US008", Num(1), TRUE) >>
    /\ tasks[1].estimated_hours = MaxHours
    /\ tasks[2].estimated_hours = MinHours

\* the batch results in batch order
RECURSIVE BatchResults(_, _)
BatchResults(outcomes, i) ==
    IF i > Len(outcomes) THEN << >>
    ELSE BatchResult(outcomes, i) \o BatchResults(outcomes, i + 1)

\* the stories no batch result names, in story order
Uncovered(outcomes) ==
    LET covered == { BatchResults(outcomes, 1)[k].story_id :
                        k \in 1..Len(BatchResults(outcomes, 1)) }
    IN  SelectSeq(user_stories, LAMBDA story : story.id \notin covered)

\* C23: the ids of state.tasks are T001..Tm in list order, and the list is
\* the batch results in batch order followed by the coverage fallback
\* tasks of the stories no batch result names
C23_SequentialTaskIds ==
    TasksGenerated =>
        /\ \A k \in 1..Len(tasks) : tasks[k].id = FormatTaskId(k)
        /\ Bodies(tasks) =
              Bodies(BatchResults(llm_tasks, 1))
              \o Bodies(FallbackFrom(Uncovered(llm_tasks), 1, 0))

\* two batches with tasks and a story that only the coverage pass serves
C23_Witness ==
    /\ TasksGenerated
    /\ Len(user_stories) = 8
    /\ llm_tasks[1].kind = "list" /\ Len(llm_tasks[1].tasks) = 2
    /\ llm_tasks[2].kind = "list" /\ Len(llm_tasks[2].tasks) = 1
    /\ ~BatchRaises(llm_tasks[1]) /\ ~BatchRaises(llm_tasks[2])
    /\ Len(Uncovered(llm_tasks)) > 0
    /\ tasks[Len(tasks)].id = FormatTaskId(Len(tasks))
    /\ Len(tasks) > 3

\* the JSON objects of a batch answer
ModelTasks(outcome) == SelectSeq(outcome.tasks, IsDictTask)

\* C24: every task object a batch call returned is kept, with its own
\* story_id when that names a story of the batch and with the id of the
\* first story of the batch otherwise, and every task of state.tasks names
\* an existing story
C24_ModelTasksKept ==
    TasksGenerated =>
        /\ TaskStoryIds \subseteq StoryIds(user_stories)
        /\ \A i \in 1..Len(llm_tasks) :
              llm_tasks[i].kind = "list" =>
                LET kept == BatchSegment(tasks, llm_tasks, i)
                    returned == ModelTasks(llm_tasks[i])
                    batch == StoryBatch(user_stories, i - 1)
                IN  /\ Len(kept) >= Len(returned)
                    /\ \A k \in 1..Len(returned) :
                          /\ kept[k].title = returned[k].title
                          /\ kept[k].story_id =
                                IF returned[k].story_id \in StoryIds(batch)
                                THEN returned[k].story_id
                                ELSE batch[1].id

C26_TasksOnlyAfterAcceptance ==
    /\ Len(tasks) > 0 => decision = "approved"
    /\ pc = "human_review" => tasks = << >>

\* an accepted run that has decomposed its stories
C26_Witness ==
    /\ pc = "project_complete"
    /\ decision = "approved"
    /\ Len(tasks) >= 3
    /\ retries >= 1

\* C27: save_project_to_supabase runs at most once per run and only after
\* generate_tasks; it alone writes storage_success and storage_error, a
\* failure is recorded as storage_success false with a storage_error, the
\* stories, tasks and validation fields are left as they were, and the
\* run goes on to project_complete
C27_StorageFailureTolerated ==
    [][ /\ (storage_success' # storage_success \/ storage_error' # storage_error)
              => pc = "save_to_supabase"
        /\ pc = "save_to_supabase" =>
              /\ TasksGenerated
              /\ current_phase = "task_assignment"
              /\ storage_success = "unset"
              /\ storage_success' \in {"true", "false"}
              /\ storage_success' = "false" => storage_error' # "none"
              /\ pc' = "project_complete"
              /\ UNCHANGED << user_stories, tasks, validation_status,
                              validation_score, iteration_count,
                              detailed_feedback, story_issues >> ]_vars

\* a run at project_complete whose storage failed and whose tasks are kept
C27_Witness ==
    /\ pc = "project_complete"
    /\ storage_success = "false"
    /\ storage_error = "Supabase not available"
    /\ Len(tasks) > 0
    /\ Len(user_stories) > 0

\* the feedback text holds the list under the section name
Holds(name, content) ==
    content # << >> => (name \in DOMAIN feedback_section /\ feedback_section[name] = content)

\* C28: the feedback handed to a generation pass that follows a
\* "needs_revision" decision holds the score, the critical issues, the
\* missing requirements, the recommendations and the per-story issues of
\* the preceding validation pass, and the feedback of the first pass is
\* empty
C28_FeedbackComplete ==
    pc = "validate_stories" =>
        IF decision = "needs_revision"
        THEN /\ "validation_score" \in DOMAIN feedback_section
             /\ feedback_section["validation_score"] = RoundTenth(Score)
             /\ Holds("critical_issues", detailed_feedback.critical_issues)
             /\ Holds("missing_requirements", detailed_feedback.missing_requirements)
             /\ Holds("recommendations", detailed_feedback.recommendations)
             /\ Holds("story_issues", story_issues)
        ELSE feedback_section = << >>

\* C29: a generation pass that follows a "needs_revision" decision sets
\* previous_user_stories to the list the preceding validation pass scored
\* and user_stories to the stories of the new pass alone (none on a
\* failure); the snapshot keeps the old list whatever the new pass makes
C29_SnapshotBeforeOverwrite ==
    [][ (pc = "generate_stories" /\ decision = "needs_revision") =>
            /\ previous_user_stories' = user_stories
            /\ Len(previous_user_stories') > 0
            /\ user_stories' =
                  IF llm_stories'.kind = "list"
                  THEN ProcessStories(llm_stories'.stories, llm_stories'.missing)
                  ELSE << >> ]_vars

\* after a revision pass the snapshot and the new stories differ
C29_Witness ==
    /\ pc = "validate_stories"
    /\ decision = "needs_revision"
    /\ Len(previous_user_stories) > 0
    /\ Len(user_stories) > 0
    /\ user_stories # previous_user_stories

\* C30 as the claim states it: iteration_count is the number of
\* "needs_revision" decisions so far
C30_Original == iteration_count = retries

\* C30: iteration_count is incremented by validate_stories, once for every
\* pass that stores a status other than approved, and by nothing else; the
\* routing decision does not touch it
C30_CountsRejectedPasses ==
    [][ iteration_count' =
          IF /\ pc = "validate_stories"
             /\ llm_validation' \in {"dict", "raise"}
             /\ validation_status' # APPROVED
          THEN iteration_count + 1
          ELSE iteration_count ]_vars

\* a run escalated after its first validation pass ends with iteration_count 1
C30_Witness ==
    /\ pc = "human_review"
    /\ val_passes = 1
    /\ retries = 0
    /\ llm_validation = "dict"
    /\ iteration_count = 1

\* ------------------------------------------------------------ the inputs
\* C31: no node of the workflow and no evaluation of the routing function
\* changes client_requirements, documentation or project_context, or
\* changes max_iterations once it is set
C31_InputsImmutable ==
    [][ /\ inputs' = inputs
        /\ max_iterations # 0 => max_iterations' = max_iterations ]_vars

\* a run on a document that went through a revision, task generation and
\* storage
C31_Witness ==
    /\ pc = "project_complete"
    /\ inputs = DocumentInputs
    /\ max_iterations = cfg_max_iterations
    /\ retries >= 1
    /\ Len(tasks) > 0

\* -------------------------------------------------- a scoring call down
\* the run is over, every generation pass gave stories and every scoring
\* call raised (a failed or empty generation pass ends the run with
\* last_error set or the scoring call skipped)
OutageRunOver ==
    pc = "human_review" /\ llm_validation = "raise" /\ last_error = "none"

\* C32: when the scoring call raises on every validation pass while
\* generation keeps giving stories, the run makes exactly max_iterations
\* generation passes, iteration_count reaches max_iterations, and the run
\* ends at human_review without tasks
C32_OutageEscalates ==
    /\ [](pc # "generate_tasks" /\ tasks = << >>)
    /\ [](last_error = "none" => gen_passes <= MaxIt)
    /\ [](OutageRunOver =>
            /\ gen_passes = MaxIt
            /\ val_passes = MaxIt
            /\ iteration_count = MaxIt
            /\ decision = "max_iterations")
    /\ <>(pc = "human_review")

\* three passes, three failed scoring calls, escalated
C32_Witness ==
    /\ OutageRunOver
    /\ cfg_max_iterations = 3
    /\ gen_passes = 3
    /\ iteration_count = 3
    /\ validation_score = Pts(50)
    /\ tasks = << >>

\* ------------------------------------------------------ fallback triplets
\* C33: in state.tasks every fallback triplet is consistent after the
\* renumbering: a backend fallback task is followed by the frontend and the
\* testing task of the same story, the frontend task depends on exactly the
\* backend task's id and the testing task on exactly the ids of both
C33_FallbackDependencies ==
    TasksGenerated =>
        \A k \in 1..Len(tasks) :
            /\ tasks[k].title \in {"Frontend implementation", "Testing"} => k > 1
            /\ tasks[k].title = "Backend implementation" =>
                  /\ k + 2 <= Len(tasks)
                  /\ tasks[k + 1].title = "Frontend implementation"
                  /\ tasks[k + 2].title = "Testing"
                  /\ tasks[k + 1].story_id = tasks[k].story_id
                  /\ tasks[k + 2].story_id = tasks[k].story_id
                  /\ tasks[k].dependencies = << >>
                  /\ tasks[k + 1].dependencies = << tasks[k].id >>
                  /\ tasks[k + 2].dependencies = << tasks[k].id, tasks[k + 1].id >>

\* two model tasks, then the fallback of the failed second batch, then the
\* coverage fallback of the six stories the model tasks do not name
C33_Witness ==
    /\ TasksGenerated
    /\ Len(user_stories) = 8
    /\ llm_tasks[1].kind = "list" /\ Len(llm_tasks[1].tasks) = 2
    /\ ~BatchRaises(llm_tasks[1])
    /\ llm_tasks[2].kind = "raise"
    /\ Len(tasks) = 23
    /\ tasks[2].title = "model task"
    /\ tasks[5].story_id = "US008"
    /\ tasks[5].dependencies = << "T003", "T004" >>
    /\ tasks[23].story_id = "US007"
    /\ tasks[23].dependencies = << "T021", "T022" >>

\* ----------------------------------------------------------------- batches
RECURSIVE BatchesFrom(_, _)
\* the story batches from batch i (0-based) on, concatenated
BatchesFrom(stories, i) ==
    IF i >= Len(llm_tasks) THEN << >>
    ELSE StoryBatch(stories, i) \o BatchesFrom(stories, i + 1)

\* C34: n >= 1 stories go into one batch when n <= 7 and into ceil(n / 7)
\* batches otherwise; every batch holds between 1 and 7 stories, the
\* batches in order make up the story list, and every batch gets exactly
\* one generative call, in batch order
C34_Batching ==
    TasksGenerated =>
        LET n == Len(user_stories)
        IN  /\ Len(llm_tasks) = IF n <= 7 THEN 1 ELSE (n + 6) \div 7
            /\ n <= 7 => StoryBatch(user_stories, 0) = user_stories
            /\ \A i \in 1..Len(llm_tasks) :
                  /\ Len(StoryBatch(user_stories, i - 1)) >= 1
                  /\ Len(StoryBatch(user_stories, i - 1)) <= 7
            /\ BatchesFrom(user_stories, 0) = user_stories

\* eight stories: a batch of seven and a batch of one
C34_Witness ==
    /\ TasksGenerated
    /\ Len(user_stories) = 8
    /\ Len(llm_tasks) = 2
    /\ Len(StoryBatch(user_stories, 0)) = 7
    /\ StoryBatch(user_stories, 1) = << user_stories[8] >>

\* ------------------------------------------------------ the loop counters
\* C35: in a run that starts with iteration_count 0 and max_iterations >= 1
\* the count stays within 0..max_iterations, and no generation pass starts
\* once it has reached max_iterations
C35_IterationCountBounded ==
    /\ iteration_count >= 0
    /\ iteration_count <= MaxIt
    /\ pc = "generate_stories" => iteration_count < MaxIt

\* the count has reached the limit and the run has stopped
C35_Witness ==
    /\ cfg_max_iterations = 2
    /\ iteration_count = 2
    /\ gen_passes = 2
    /\ pc = "human_review"
    /\ decision = "max_iterations"

\* C36: generate_tasks is entered only with a non-empty story list and a
\* validation score of at least 60 that the latest validation pass stored:
\* never after a pass that left a stale score, failed or was skipped
C36_TasksOnlyForScoredStories ==
    pc = "generate_tasks" =>
        /\ Len(user_stories) > 0
        /\ Score >= Pts(60)
        /\ llm_validation = "dict"
        /\ decision = "approved"

\* accepted on the degradation branch with a score below 70
C36_Witness ==
    /\ pc = "generate_tasks"
    /\ Score >= Pts(60) /\ Score < Pts(70)
    /\ retries >= 1
    /\ Len(user_stories) > 0

\* C37: whenever the routing function is evaluated, validation_status is
\* approved exactly when validation_score >= 80, so the two tests of its
\* first branch agree
C37_StatusAgreesWithScore ==
    pc = "determine_next_step" => (validation_status = APPROVED <=> Score >= Pts(80))

\* a pass scored exactly 80, the lowest approved score
C37_Witness ==
    /\ pc = "determine_next_step"
    /\ llm_validation = "dict"
    /\ validation_status = APPROVED
    /\ validation_score = Pts(80)

\* ------------------------------------------------------------ the webhook
\* C38: move_task_to_review writes the status only after it has read In
\* Progress; having read To Do or Completed it writes nothing and returns
\* false, having read In Review it writes nothing and returns true; and the
\* background processing calls it only for the action "opened"
C38_MoveOnlyFromInProgress ==
    \A p \in 1..MaxHooks :
        LET w == webhooks[p]
        IN  /\ w.overwritten # 0 => (w.read_status = IN_PROGRESS /\ w.moved = "true")
            /\ (w.pc = "done" /\ w.read_status \in {TO_DO, COMPLETED}) =>
                  (w.moved = "false" /\ w.overwritten = 0)
            /\ (w.pc = "done" /\ w.read_status = IN_REVIEW) =>
                  (w.moved = "true" /\ w.overwritten = 0)
            /\ (w.pc \in {"move_task_to_review", "update"} \/ w.moved # "none") =>
                  w.action = "opened"

\* one call has moved the task and a later one found it in review
C38_Witness ==
    \E p, q \in 1..MaxHooks :
        /\ webhooks[p].read_status = IN_PROGRESS
        /\ webhooks[p].overwritten = IN_PROGRESS
        /\ webhooks[p].moved = "true"
        /\ webhooks[q].read_status = IN_REVIEW
        /\ webhooks[q].moved = "true"
        /\ webhooks[q].overwritten = 0
        /\ task_status = IN_REVIEW

\* C39: under interleaving with other webhook tasks and other writers the
\* update of move_task_to_review never replaces a status that is not In
\* Progress at the moment of the write
C39_NoLostStatus ==
    \A p \in 1..MaxHooks : webhooks[p].overwritten \in {0, IN_PROGRESS}

\* C40: a request whose signature header is missing or does not verify
\* against the configured secret is answered 401 and schedules nothing;
\* background processing is scheduled only for a verified request whose
\* action is opened, synchronize or reopened
C40_UnverifiedRejected ==
    \A p \in 1..MaxHooks :
        LET w == webhooks[p]
        IN  /\ (w.pc # "idle" /\ w.secret_set /\ ~w.verified) =>
                  (w.response = 401 /\ ~w.scheduled)
            /\ w.scheduled => (w.verified /\ w.action \in ProcessedActions)

====
